---- MODULE Spec2Model ----
(***************************************************************************)
(* Model of the registration server's persistence layer (src/db.rs) and    *)
(* of its error mapper (src/errors.rs).                                    *)
(*                                                                         *)
(* The backing store is the sqlite file: whether the table `boxes` exists  *)
(* and the rows it holds, in rowid (insertion) order.  Strings are         *)
(* sequences of one-character strings, so that escape() is computed        *)
(* character by character.  The engine is taken to be fault free: the      *)
(* only Err results are the ones the statements' own text produces.        *)
(***************************************************************************)
EXTENDS Integers, Sequences, FiniteSets, TLC

VARIABLES table, rows, op, arg, res

vars == <<table, rows, op, arg, res>>

\* ---------------------------------------------------------------- bounds
MaxRows == 2
MaxTime == 1

\* ---------------------------------------------------------------- inputs
Quote == "'"

\* an address without and one with the quoting delimiter
PublicIps == { <<"1">>, <<Quote>> }

\* a message with one quote, and the message escape() turns it into
Messages == { <<Quote>>, <<Quote, Quote>> }

Timestamps == 0 .. MaxTime

Thresholds == 0 .. (MaxTime + 1)

\* struct Record
Record == [public_ip : PublicIps, message : Messages,
           tunnel_configured : BOOLEAN, timestamp : Timestamps]

\* enum FindFilter
FindFilter ==
    [kind : {"PublicIp"}, public_ip : PublicIps]
    \cup [kind : {"PublicIpAndMessage"}, public_ip : PublicIps, message : Messages]

\* rusqlite::Result
Ok(v) == [ok |-> TRUE, val |-> v]

Err(e) == [ok |-> FALSE, err |-> e]

\* ---------------------------------------------------------------- helpers
RECURSIVE escape(_)
escape(string) ==
    IF string = <<>> THEN <<>>
    ELSE IF Head(string) = Quote
         THEN <<Quote, Quote>> \o escape(Tail(string))
         ELSE <<Head(string)>> \o escape(Tail(string))

bool_as_int(value) == IF value THEN 1 ELSE 0

\* rusqlite's FromSql for bool, used by row.get(2)
int_as_bool(i) == i # 0

\* the row the INSERT statement writes for a record
RowOf(record) ==
    [public_ip |-> record.public_ip, message |-> record.message,
     tunnel_configured |-> bool_as_int(record.tunnel_configured),
     timestamp |-> record.timestamp]

\* the Record find() builds from a result row
RecordOf(row) ==
    [public_ip |-> row.public_ip, message |-> row.message,
     tunnel_configured |-> int_as_bool(row.tunnel_configured),
     timestamp |-> row.timestamp]

RECURSIVE MapRecords(_)
MapRecords(rs) ==
    IF rs = <<>> THEN <<>> ELSE <<RecordOf(Head(rs))>> \o MapRecords(Tail(rs))

\* the WHERE clause of find's SELECT, with the values find binds to $1, $2
FindMatches(row, filter) ==
    IF filter.kind = "PublicIp"
    THEN row.public_ip = escape(filter.public_ip)
    ELSE /\ row.public_ip = escape(filter.public_ip)
         /\ row.message = escape(filter.message)

find(rs, filter) ==
    LET keep(row) == FindMatches(row, filter)
    IN  Ok(MapRecords(SelectSeq(rs, keep)))

\* ---------------------------------------------------------------- actions
Init ==
    /\ table = FALSE
    /\ rows = <<>>
    /\ op = "none"
    /\ arg = <<>>
    /\ res = <<>>

\* a CREATE TABLE that replaces the table it finds
CreateTable(exists, rs) == <<>>

\* CREATE TABLE IF NOT EXISTS boxes (...)
CreateTableIfNotExists(exists, rs) == IF exists THEN rs ELSE <<>>

New ==
    /\ table' = TRUE
    /\ rows' = CreateTableIfNotExists(table, rows)
    /\ op' = "new"
    /\ arg' = <<>>
    /\ res' = Ok(<<>>)

Find ==
    /\ table
    /\ \E filter \in FindFilter :
         /\ op' = "find"
         /\ arg' = filter
         /\ res' = find(rows, filter)
    /\ UNCHANGED <<table, rows>>

\* #[cfg(test)] DELETE FROM boxes; VACUUM;
Clear ==
    /\ table
    /\ rows' = <<>>
    /\ op' = "clear"
    /\ arg' = <<>>
    /\ res' = Ok(<<>>)
    /\ UNCHANGED table

\* an insert that replaces the rows of the same (public_ip, message)
InsertRowReplacing(rs, record) ==
    LET other(row) == ~(row.public_ip = record.public_ip /\ row.message = record.message)
    IN  Append(SelectSeq(rs, other), RowOf(record))

\* INSERT INTO boxes (...) VALUES ($1, $2, $3, $4)
InsertRow(rs, record) == Append(rs, RowOf(record))

Add ==
    /\ table
    /\ Len(rows) < MaxRows
    /\ \E record \in Record :
         /\ rows' = InsertRow(rows, record)
         /\ op' = "add"
         /\ arg' = record
         /\ res' = Ok(Len(rows') - Len(rows))
    /\ UNCHANGED table

\* The SET clause of update's statement, one token per assignment or comma,
\* as the text of the statement has it.
UpdateSetClause ==
    << "public_ip=$1", ",", "message=$2", ",", "tunnel_configured=$3", "timestamp=$4" >>

\* the highest placeholder of update's statement ($6)
UpdatePlaceholders == 6

\* the number of values update passes to execute()
UpdateParams == 4

\* sqlite's grammar for a SET clause: assignments separated by commas
CommaSeparated(tokens) ==
    /\ Len(tokens) % 2 = 1
    /\ \A i \in 1 .. Len(tokens) : (i % 2 = 0) <=> (tokens[i] = ",")

\* Connection::execute: prepare the statement, then bind the parameters
UpdatePrepares == CommaSeparated(UpdateSetClause)

UpdateBinds == UpdateParams = UpdatePlaceholders

UpdateMatches(row, record) ==
    /\ row.public_ip = record.public_ip
    /\ row.message = record.message

UpdateRows(rs, record) ==
    [i \in DOMAIN rs |-> IF UpdateMatches(rs[i], record) THEN RowOf(record) ELSE rs[i]]

update(rs, record) ==
    IF ~UpdatePrepares THEN [rows |-> rs, res |-> Err("SqliteFailure: syntax error")]
    ELSE IF ~UpdateBinds THEN [rows |-> rs, res |-> Err("incorrect number of parameters")]
    ELSE [rows |-> UpdateRows(rs, record),
          res |-> Ok(Cardinality({i \in DOMAIN rs : UpdateMatches(rs[i], record)}))]

Update ==
    /\ table
    /\ \E record \in Record :
         LET done == update(rows, record)
         IN  /\ rows' = done.rows
             /\ op' = "update"
             /\ arg' = record
             /\ res' = done.res
    /\ UNCHANGED table

\* an eviction that takes the boundary with it
DeleteMatchesInclusive(row, timestamp) == row.timestamp <= timestamp

\* DELETE FROM boxes WHERE timestamp < $1
DeleteMatches(row, timestamp) == row.timestamp < timestamp

delete_older_than(rs, timestamp) ==
    LET keep(row) == ~DeleteMatches(row, timestamp)
    IN  SelectSeq(rs, keep)

DeleteOlderThan ==
    /\ table
    /\ \E timestamp \in Thresholds :
         /\ rows' = delete_older_than(rows, timestamp)
         /\ op' = "delete_older_than"
         /\ arg' = timestamp
         /\ res' = Ok(Len(rows) - Len(rows'))
    /\ UNCHANGED table

\* ---------------------------------------------------------------- errors.rs
Fields == {"domain", "tunnel_configured", "message", "local_ip"}

\* json::DecoderError
DecoderError ==
    [kind : {"MissingFieldError"}, field : Fields]
    \cup [kind : {"ParseError", "ExpectedError", "UnknownVariantError", "ApplicationError"}]

\* status::Status::to_u16
to_u16(status) ==
    CASE status = "BadRequest" -> 400
      [] status = "NotFound" -> 404
      [] status = "InternalServerError" -> 500

\* status::Status::canonical_reason
canonical_reason(status) ==
    CASE status = "BadRequest" -> "Bad Request"
      [] status = "NotFound" -> "Not Found"
      [] status = "InternalServerError" -> "Internal Server Error"

EndpointError_with(status, errno) ==
    LET error == canonical_reason(status)
        body == [code |-> to_u16(status), errno |-> errno, error |-> error]
    IN  [ok |-> FALSE, err |-> error, status |-> status, body |-> body]

\* the table with the errno of "tunnel_configured" left out
MissingFieldErrnoShort(field) ==
    CASE field = "domain" -> 100
      [] OTHER -> 400

MissingFieldErrno(field) ==
    CASE field = "domain" -> 100
      [] field = "tunnel_configured" -> 101
      [] OTHER -> 400

from_decoder_error(error) ==
    IF error.kind = "MissingFieldError"
    THEN EndpointError_with("BadRequest", MissingFieldErrno(error.field))
    ELSE EndpointError_with("BadRequest", 400)

FromDecoderError ==
    /\ \E error \in DecoderError :
         /\ op' = "from_decoder_error"
         /\ arg' = error
         /\ res' = from_decoder_error(error)
    /\ UNCHANGED <<table, rows>>

Next ==
    \/ New
    \/ Clear
    \/ Find
    \/ Add
    \/ Update
    \/ DeleteOlderThan
    \/ FromDecoderError

Spec == Init /\ [][Next]_vars

\* the store's operations alone
NextStore ==
    \/ New
    \/ Clear
    \/ Find
    \/ Add
    \/ Update
    \/ DeleteOlderThan

SpecStore == Init /\ [][NextStore]_vars

\* construction, insertion, lookup and eviction
NextEvict ==
    \/ New
    \/ Clear
    \/ Find
    \/ Add
    \/ DeleteOlderThan

SpecEvict == Init /\ [][NextEvict]_vars

\* the HTTP layer registering boxes and reporting decode failures
NextErrors ==
    \/ New
    \/ Add
    \/ FromDecoderError

SpecErrors == Init /\ [][NextErrors]_vars

\* ---------------------------------------------------------------- properties
\* What the claims mean by a row, a key and a match, stated on the stored
\* rows themselves.
Front(s) == SubSeq(s, 1, Len(s) - 1)

HasKey(row, public_ip, message) ==
    row.public_ip = public_ip /\ row.message = message

\* the record a stored row stands for
Stored(row) ==
    [public_ip |-> row.public_ip, message |-> row.message,
     tunnel_configured |-> (row.tunnel_configured = 1), timestamp |-> row.timestamp]

\* equality matching of a row against a filter
Selects(filter, row) ==
    IF filter.kind = "PublicIp"
    THEN row.public_ip = filter.public_ip
    ELSE HasKey(row, filter.public_ip, filter.message)

\* the records of the rows a filter selects, in the order of the store
Selected(rs, filter) ==
    LET sel(row) == Selects(filter, row)
        picked == SelectSeq(rs, sel)
    IN  [i \in DOMAIN picked |-> Stored(picked[i])]

Plain(string) == \A i \in DOMAIN string : string[i] # Quote

ByKey(record) ==
    [kind |-> "PublicIpAndMessage", public_ip |-> record.public_ip,
     message |-> record.message]

\* C1: add-then-find round trip. When add(r) on a store with no row of r's
\* key has returned 1, the find by r's publicIp and message that follows
\* returns exactly the one record r, every field unchanged (also when the
\* message contains a single quote).
C1_AddThenFind ==
    [][ ( /\ op = "add"
          /\ res = Ok(1)
          /\ \A i \in DOMAIN Front(rows) : ~HasKey(rows[i], arg.public_ip, arg.message)
          /\ op' = "find"
          /\ arg' = ByKey(arg) )
        => res' = Ok(<<arg>>) ]_vars

\* C2: update(r) on a store with k >= 0 rows of r's key succeeds and returns
\* k; those k rows then carry r's tunnelConfigured and timestamp and every
\* other row is unchanged (for k = 0 the store is unchanged and Ok(0) is
\* returned).
C2_UpdateReturnsCount ==
    [][ op' = "update" =>
          LET r == arg'
              hit(i) == HasKey(rows[i], r.public_ip, r.message)
              k == Cardinality({i \in DOMAIN rows : hit(i)})
          IN  /\ res' = Ok(k)
              /\ rows' = [i \in DOMAIN rows |->
                            IF hit(i)
                            THEN [rows[i] EXCEPT
                                    !.tunnel_configured = IF r.tunnel_configured THEN 1 ELSE 0,
                                    !.timestamp = r.timestamp]
                            ELSE rows[i]] ]_vars

\* C3: strict eviction boundary. deleteOlderThan(t) removes exactly the rows
\* with timestamp < t, returns how many it removed, and leaves every row with
\* timestamp >= t (timestamp = t included) in place and unchanged.
C3_StrictEviction ==
    [][ op' = "delete_older_than" =>
          LET t == arg'
              survives(row) == row.timestamp >= t
          IN  /\ rows' = SelectSeq(rows, survives)
              /\ res' = Ok(Cardinality({i \in DOMAIN rows : rows[i].timestamp < t})) ]_vars

\* an eviction that removed a row and kept a row whose timestamp is the threshold
C3_Witness ==
    /\ op = "delete_older_than"
    /\ res.val >= 1
    /\ \E i \in DOMAIN rows : rows[i].timestamp = arg

\* C4: equality-only filters. Every record find returns has the publicIp of
\* the filter, and for ByPublicIpAndMessage also its message, whatever the
\* argument strings are.
C4_EqualityOnly ==
    op = "find" =>
        /\ res.ok
        /\ \A i \in DOMAIN res.val :
             /\ res.val[i].public_ip = arg.public_ip
             /\ arg.kind = "PublicIpAndMessage" => res.val[i].message = arg.message

\* C5: several rows per publicIp, in insertion order. find(ByPublicIp(ip))
\* returns the records of all rows with that publicIp in the order they were
\* added, each with its own message and flag; after add(r1), add(r2) on a
\* cleared store, with the same ip and different messages, that is [r1, r2].
C5_InsertionOrder ==
    (op = "find" /\ arg.kind = "PublicIp") => res = Ok(Selected(rows, arg))

\* C6: the decode-failure table. A missing "domain" gives errno 100, a missing
\* "tunnel_configured" errno 101, every other decode error errno 400; the
\* result is always an error with status 400, body code 400 and error
\* "Bad Request".
C6_DecodeErrorTable ==
    op = "from_decoder_error" =>
        /\ ~res.ok
        /\ res.status = "BadRequest"
        /\ res.body.code = 400
        /\ res.body.error = "Bad Request"
        /\ res.body.errno =
             IF arg.kind = "MissingFieldError" /\ arg.field = "domain" THEN 100
             ELSE IF arg.kind = "MissingFieldError" /\ arg.field = "tunnel_configured" THEN 101
             ELSE 400

\* a missing "tunnel_configured" field has been mapped
C6_Witness ==
    /\ op = "from_decoder_error"
    /\ arg.kind = "MissingFieldError"
    /\ arg.field = "tunnel_configured"
    /\ res.body.errno = 101

\* C7: add never deduplicates. add(r) returns 1 and appends exactly one row,
\* whatever the store holds; and when the store ends in n >= 1 copies of r's
\* row after a part with no row of r's key (n successive add(r)), the find by
\* r's publicIp and message returns n records.
C7_PureInsert ==
    /\ [][ op' = "add" =>
             /\ res' = Ok(1)
             /\ Len(rows') = Len(rows) + 1
             /\ Front(rows') = rows
             /\ Stored(rows'[Len(rows')]) = arg' ]_vars
    /\ [] ( (op = "find" /\ arg.kind = "PublicIpAndMessage") =>
              \A n \in 1 .. Len(rows) :
                 ( /\ \A i \in (Len(rows) - n + 1) .. Len(rows) :
                        /\ rows[i] = rows[Len(rows)]
                        /\ HasKey(rows[i], arg.public_ip, arg.message)
                   /\ \A i \in 1 .. (Len(rows) - n) :
                        ~HasKey(rows[i], arg.public_ip, arg.message) )
                 => (res.ok /\ Len(res.val) = n) )

\* C8: absence is a result, not a fault. find on a store with no row that
\* equals the filter returns Ok of the empty sequence, deleteOlderThan(t) on a
\* store with no row older than t returns Ok(0), and both leave the store as
\* it was (so repeating them gives the same again).
C8_AbsenceIsOk ==
    [][ /\ ( (op' = "find" /\ \A i \in DOMAIN rows : ~Selects(arg', rows[i]))
             => (res' = Ok(<<>>) /\ rows' = rows) )
        /\ ( (op' = "delete_older_than" /\ \A i \in DOMAIN rows : ~(rows[i].timestamp < arg'))
             => (res' = Ok(0) /\ rows' = rows) ) ]_vars

\* C9: rows are destroyed only by deleteOlderThan or clear. find leaves the
\* store unchanged; add keeps every earlier row, unchanged and in place;
\* update, failed or not, keeps the number of rows and the key of each; and
\* the store shrinks in no other step than an eviction or a clear.
C9_RowsOnlyDestroyedByDeleteOrClear ==
    [][ /\ op' = "find" => rows' = rows
        /\ op' = "add" => (Len(rows') > Len(rows) /\ SubSeq(rows', 1, Len(rows)) = rows)
        /\ op' = "update" =>
             /\ Len(rows') = Len(rows)
             /\ \A i \in DOMAIN rows :
                  HasKey(rows'[i], rows[i].public_ip, rows[i].message)
        /\ Len(rows') < Len(rows) => op' \in {"delete_older_than", "clear"} ]_vars

\* an add of a record whose key the store already held: both rows are there
C9_Witness ==
    /\ op = "add"
    /\ Len(rows) = 2
    /\ HasKey(rows[1], arg.public_ip, arg.message)
    /\ Stored(rows[2]) = arg

====
